---- MODULE Spec2Model ----
(***************************************************************************)
(* Model of the tool-dispatch surface of mcp-supabase-server.  The         *)
(* repository holds several stand-alone variants of the same bridge; one   *)
(* process runs exactly one of them, so the variant is fixed in Init.      *)
(* Startup is the run of the module's top-level statements; every other   *)
(* action is one request handler, taken atomically from the request to     *)
(* the response, together with the network calls it issues.                *)
(***************************************************************************)
EXTENDS Integers, Sequences, FiniteSets, TLC

VARIABLES variant, vertexProject, leads, arsenal, nCalls, lastReq, lastResp, calls,
          env, proc, supabase, exitCause,
          streams, transport, serverTransport, activeTransports, connectionId,
          clock, handledBy

\* the state of the event-stream transport
sseVars == <<streams, transport, serverTransport, activeTransports, connectionId,
             clock, handledBy>>

vars == <<variant, vertexProject, leads, arsenal, nCalls, lastReq, lastResp, calls,
          env, proc, supabase, exitCause, sseVars>>

(***************************************************************************)
(* Bounds                                                                  *)
(***************************************************************************)
MaxCalls == 2
\* rows of the largest arsenal table
MaxItems == 11
\* the last millisecond Date.now() reaches
MaxClock == 2

(***************************************************************************)
(* Values                                                                  *)
(***************************************************************************)
UNDEFINED == "undefined"
NULLV == "null"
NoLimit == -1
NoId == 0

Phones == {"p1", "p2"}
Stages == {"novo", "quente"}
Perfis == {"perfilA"}
Ids == 1 .. (MaxCalls + 2)

\* the variants of the server found in the repository
RestVariants == {"p001_http", "p004_http"}
StubVariants == {"srv_stub", "p005_stub"}
McpToolVariants == {"p003_mcp", "p006_mcp", "srv_mcp"}
ServerVariants == {"p002_stdio", "p006_crud", "p007_arsenal", "srv_map"}
Variants == RestVariants \cup StubVariants \cup McpToolVariants \cup ServerVariants

\* the variants that leave when a credential is missing: process.exit(1)
ExitingVariants == Variants \ ({"srv_mcp"} \cup RestVariants)

\* the variants that serve GET /sse and POST /messages
SseVariants == Variants \ ({"p002_stdio"} \cup RestVariants)

\* the tool names each variant answers (its tool list or its endpoints)
Registry(v) ==
    IF v = "p001_http" THEN {"buscar_arsenal", "buscar_lead", "atualizar_lead"}
    ELSE IF v \in {"p002_stdio", "p006_crud"}
    THEN {"ler_tabela", "modificar_dados", "gerar_link_download"}
    ELSE IF v = "p007_arsenal" THEN {"buscar_arsenal", "ler_tabela"}
    ELSE IF v = "srv_map" THEN {"buscar_arsenal", "listar_tabelas"}
    ELSE {"buscar_arsenal"}

\* JavaScript truthiness of an optional string argument
Truthy(v) == v \notin {UNDEFINED, NULLV, ""}

\* a JavaScript value that may be a string (sequence of characters)
Str(s) == [t |-> "string", s |-> s]
Undef == [t |-> "undefined", s |-> <<>>]
Num == [t |-> "number", s |-> <<"9">>]
TruthyVal(v) == \/ v.t = "number"
                \/ v.t = "string" /\ Len(v.s) > 0

(***************************************************************************)
(* Text matching done by the store for ilike '%q%'                         *)
(***************************************************************************)
Lower(c) == IF c = "T" THEN "t" ELSE IF c = "Z" THEN "z" ELSE c

\* q occurs in s as a contiguous substring, ignoring case
ILike(s, q) ==
    \E i \in 0 .. (Len(s) - Len(q)) :
        \A j \in 1 .. Len(q) : Lower(s[i + j]) = Lower(q[j])

(***************************************************************************)
(* Rows and sets of rows                                                   *)
(***************************************************************************)
RECURSIVE SortById(_)
SortById(S) ==
    IF S = {} THEN <<>>
    ELSE LET m == CHOOSE r \in S : \A o \in S : r.id <= o.id
         IN <<m>> \o SortById(S \ {m})

Take(s, n) == IF n >= Len(s) THEN s ELSE SubSeq(s, 1, n)

MergeRow(row, data) ==
    [f \in DOMAIN row |-> IF f \in DOMAIN data THEN data[f] ELSE row[f]]

EmptyLead(id) ==
    [id |-> id, telefone |-> NULLV, funnel_stage |-> NULLV,
     perfil_completo_ia |-> NULLV, last_interaction |-> 0]

FreeId(rows) == CHOOSE i \in Ids : i \notin {r.id : r \in rows} /\
                    \A k \in Ids : k \notin {r.id : r \in rows} => i <= k

(***************************************************************************)
(* Responses                                                               *)
(***************************************************************************)
Blank ==
    [kind |-> "none", status |-> 0, fields |-> {}, isError |-> FALSE,
     content |-> <<>>, erro |-> FALSE, tag |-> "", rows |-> <<>>,
     msg |-> "", encontrado |-> FALSE, lead |-> <<>>, code |-> 0]

TextOf(tag, rows, msg) == [tag |-> tag, rows |-> rows, msg |-> msg]

\* { content: [{ type: "text", text }] }
Envelope(text) ==
    [Blank EXCEPT !.kind = "mcp", !.fields = {"content"},
                  !.content = <<[type |-> "text", text |-> text]>>]

\* { content: [{ type: "text", text }], isError: true }
ErrorEnvelope(text) ==
    [Blank EXCEPT !.kind = "mcp", !.fields = {"content", "isError"},
                  !.isError = TRUE,
                  !.content = <<[type |-> "text", text |-> text]>>]

\* an exception that leaves the request handler
Thrown(msg) == [Blank EXCEPT !.kind = "thrown", !.msg = msg]

\* res.status(s).json({...})
HttpJson(status, fields) ==
    [Blank EXCEPT !.kind = "http", !.status = status, !.fields = fields]

BackendCall(op, target) == [svc |-> "backend", op |-> op, target |-> target, arg |-> 0]
EmbeddingCall == [svc |-> "embedding", op |-> "predict", target |-> "text-embedding-004", arg |-> 0]

Result(resp, cs, newLeads) == [resp |-> resp, calls |-> cs, leads |-> newLeads]

\* error codes the store can answer a query with, besides the codes the
\* query itself causes
BackendOutcomes == {"ok", "PGRST301", "08006"}
Quiet == {"ok"}
NotFoundCode == "PGRST116"

(***************************************************************************)
(* Arsenal items (read by the search tools)                                *)
(***************************************************************************)
Item1 ==
    [id |-> 1, nome_arquivo |-> "a1.jpg", categoria |-> "ETAPA_1",
     nome |-> <<"T">>, descricao_semantica |-> <<"T">>,
     conteudo_texto |-> <<"z">>]

Item2 ==
    [id |-> 2, nome_arquivo |-> "a2.jpg", categoria |-> "ETAPA_3",
     nome |-> <<"z">>, descricao_semantica |-> <<"z", "t">>,
     conteudo_texto |-> <<>>]

\* further rows, all alike but for the key
Filler(i) ==
    [id |-> i, nome_arquivo |-> "a.jpg", categoria |-> "ETAPA_1",
     nome |-> <<"t">>, descricao_semantica |-> <<"t">>,
     conteudo_texto |-> <<>>]

ArsenalChoices ==
    {{}, {Item1, Item2}, {Item1, Item2} \cup {Filler(i) : i \in 3 .. MaxItems}}

\* the rows the similarity procedure may find above its threshold
HitChoices == {{}, arsenal} \cup {{i} : i \in arsenal \cap {Item1, Item2}}

QueryInputs == {Undef, Num, Str(<<>>), Str(<<"t">>), Str(<<"q">>)}
LimitInputs == {NoLimit, 1}

\* .or(`descricao_semantica.ilike.%q%,conteudo_texto.ilike.%q%,...`)
KeywordMatch(item, q) ==
    ILike(item.descricao_semantica, q) \/ ILike(item.conteudo_texto, q)

FormatItem(item) ==
    [nome_arquivo |-> item.nome_arquivo, categoria |-> item.categoria]

FormatAll(rows) == [i \in 1 .. Len(rows) |-> FormatItem(rows[i])]

(***************************************************************************)
(* part_001: REST variant with embeddings                                  *)
(***************************************************************************)
EmbeddingOutcomes == {"ok", "token_fail", "http_fail"}

\* gerarEmbedding without the check of VERTEX_PROJECT
gerarEmbedding_noConfigCheck(emb) ==
    IF emb = "token_fail"
    THEN [ok |-> FALSE, msg |-> "gcloud auth falhou", calls |-> <<>>]
    ELSE IF emb = "http_fail"
    THEN [ok |-> FALSE, msg |-> "Vertex AI falhou", calls |-> <<EmbeddingCall>>]
    ELSE [ok |-> TRUE, msg |-> "", calls |-> <<EmbeddingCall>>]

\* gerarEmbedding: the calls it issues and whether it throws
gerarEmbedding(emb) ==
    IF ~vertexProject
    THEN [ok |-> FALSE, msg |-> "VERTEX_PROJECT nao configurado", calls |-> <<>>]
    ELSE IF emb = "token_fail"
    THEN [ok |-> FALSE, msg |-> "gcloud auth falhou", calls |-> <<>>]
    ELSE IF emb = "http_fail"
    THEN [ok |-> FALSE, msg |-> "Vertex AI falhou", calls |-> <<EmbeddingCall>>]
    ELSE [ok |-> TRUE, msg |-> "", calls |-> <<EmbeddingCall>>]

\* the endpoint without its try/catch: the error leaves the handler
Http500Stack_uncaught(msg) == Thrown(msg)

\* catch (error) { res.status(500).json({ erro: true, mensagem, stack }) }
Http500Stack(msg) ==
    [HttpJson(500, {"erro", "mensagem", "stack"}) EXCEPT !.erro = TRUE, !.msg = msg]

\* catch (error) { res.status(500).json({ erro: true, mensagem }) }
Http500(msg) ==
    [HttpJson(500, {"erro", "mensagem"}) EXCEPT !.erro = TRUE, !.msg = msg]

\* POST /buscar_arsenal going on to the similarity procedure when the
\* embedding could not be made
BuscarArsenalP001_searchAnyway(query, limit, emb, be, hits) ==
    LET lim == IF limit = NoLimit THEN 5 ELSE limit
        e == gerarEmbedding(emb)
        rpc == BackendCall("rpc", "match_arsenal_vendas")
        data == Take(SortById(hits), lim)
    IN  IF ~TruthyVal(query) \/ query.t # "string"
        THEN Result([HttpJson(400, {"erro", "mensagem"})
                        EXCEPT !.erro = TRUE, !.msg = "Query invalida"],
                    <<>>, leads)
        ELSE IF be # "ok" \/ ~e.ok
        THEN Result(Http500Stack(be), e.calls \o <<rpc>>, leads)
        ELSE Result([HttpJson(200, {"status", "query", "total", "resultados",
                                    "instrucoes_ia"})
                        EXCEPT !.tag = "sucesso", !.rows = FormatAll(data)],
                    e.calls \o <<rpc>>, leads)

\* POST /buscar_arsenal of part_001; hits are the rows the similarity
\* procedure finds above the threshold
BuscarArsenalP001(query, limit, emb, be, hits) ==
    LET lim == IF limit = NoLimit THEN 5 ELSE limit
        e == gerarEmbedding(emb)
        rpc == BackendCall("rpc", "match_arsenal_vendas")
        data == Take(SortById(hits), lim)
    IN  IF ~TruthyVal(query) \/ query.t # "string"
        THEN Result([HttpJson(400, {"erro", "mensagem"})
                        EXCEPT !.erro = TRUE, !.msg = "Query invalida"],
                    <<>>, leads)
        ELSE IF ~e.ok
        THEN Result(Http500Stack(e.msg), e.calls, leads)
        ELSE IF be # "ok"
        THEN Result(Http500Stack(be), e.calls \o <<rpc>>, leads)
        ELSE IF Len(data) = 0
        THEN Result([HttpJson(200, {"status", "query_original", "sugestao",
                                    "total", "resultados"})
                        EXCEPT !.tag = "sem_resultados", !.rows = <<>>],
                    e.calls \o <<rpc>>, leads)
        ELSE Result([HttpJson(200, {"status", "query", "total", "resultados",
                                    "instrucoes_ia"})
                        EXCEPT !.tag = "sucesso", !.rows = FormatAll(data)],
                    e.calls \o <<rpc>>, leads)

\* POST /buscar_lead throwing on every error of the query, the not-found
\* code included
BuscarLead_strict(telefone, be) ==
    LET sel == BackendCall("select", "leads")
        found == {r \in leads : r.telefone = telefone}
        code == IF be # "ok" THEN be
                ELSE IF Cardinality(found) # 1 THEN NotFoundCode
                ELSE "none"
        data == IF code = "none" THEN <<CHOOSE r \in found : TRUE>> ELSE <<>>
    IN  IF code # "none"
        THEN Result(Http500(code), <<sel>>, leads)
        ELSE Result([HttpJson(200, {"encontrado", "lead"})
                        EXCEPT !.encontrado = (data # <<>>), !.lead = data],
                    <<sel>>, leads)

\* POST /buscar_lead ignoring the error of the query altogether
BuscarLead_lenient(telefone, be) ==
    LET sel == BackendCall("select", "leads")
        found == {r \in leads : r.telefone = telefone}
        code == IF be # "ok" THEN be
                ELSE IF Cardinality(found) # 1 THEN NotFoundCode
                ELSE "none"
        data == IF code = "none" THEN <<CHOOSE r \in found : TRUE>> ELSE <<>>
    IN  Result([HttpJson(200, {"encontrado", "lead"})
                    EXCEPT !.encontrado = (data # <<>>), !.lead = data],
               <<sel>>, leads)

\* POST /buscar_lead
BuscarLead(telefone, be) ==
    LET sel == BackendCall("select", "leads")
        found == {r \in leads : r.telefone = telefone}
        \* .single(): anything but exactly one row is the not-found error
        code == IF be # "ok" THEN be
                ELSE IF Cardinality(found) # 1 THEN NotFoundCode
                ELSE "none"
        data == IF code = "none" THEN <<CHOOSE r \in found : TRUE>> ELSE <<>>
    IN  IF code # "none" /\ code # NotFoundCode
        THEN Result(Http500(code), <<sel>>, leads)
        ELSE Result([HttpJson(200, {"encontrado", "lead"})
                        EXCEPT !.encontrado = (data # <<>>), !.lead = data],
                    <<sel>>, leads)

\* the partial update object of POST /atualizar_lead
UpdateData(telefone, funnel_stage, perfil_completo_ia, now) ==
    [telefone |-> telefone, last_interaction |-> now]
    @@ (IF Truthy(funnel_stage)
        THEN [funnel_stage |-> funnel_stage] ELSE <<>>)
    @@ (IF Truthy(perfil_completo_ia)
        THEN [perfil_completo_ia |-> perfil_completo_ia] ELSE <<>>)

\* an upsert that replaces the whole row instead of the supplied columns
Upsert_replace(rows, data) ==
    IF \E r \in rows : r.telefone = data.telefone
    THEN {IF r.telefone = data.telefone THEN MergeRow(EmptyLead(r.id), data) ELSE r
            : r \in rows}
    ELSE rows \cup {MergeRow(EmptyLead(FreeId(rows)), data)}

\* .upsert(updateData, { onConflict: 'telefone' }): the row with the same
\* natural key is updated in the supplied columns, otherwise a row is added
Upsert(rows, data) ==
    IF \E r \in rows : r.telefone = data.telefone
    THEN {IF r.telefone = data.telefone THEN MergeRow(r, data) ELSE r : r \in rows}
    ELSE rows \cup {MergeRow(EmptyLead(FreeId(rows)), data)}

\* POST /atualizar_lead
AtualizarLead(telefone, funnel_stage, perfil_completo_ia, now, be) ==
    LET data == UpdateData(telefone, funnel_stage, perfil_completo_ia, now)
        ups == BackendCall("upsert", "leads")
        \* an undefined telefone is dropped by JSON.stringify: the natural
        \* key of the new row is null and the store refuses it
        code == IF be # "ok" THEN be
                ELSE IF telefone = UNDEFINED THEN "23502"
                ELSE "none"
        after == Upsert(leads, data)
    IN  IF code # "none"
        THEN Result(Http500(code), <<ups>>, leads)
        ELSE Result([HttpJson(200, {"status", "lead"})
                        EXCEPT !.tag = "atualizado",
                               !.lead = <<CHOOSE r \in after : r.telefone = telefone>>],
                    <<ups>>, after)


(***************************************************************************)
(* part_004: REST variant with keyword search                              *)
(***************************************************************************)
\* the query without its .limit(n)
KeywordRows_unlimited(q, lim) ==
    SortById({i \in arsenal : KeywordMatch(i, q)})

\* .or(...ilike...).limit(lim)
KeywordRows(q, lim) ==
    Take(SortById({i \in arsenal : KeywordMatch(i, q)}), lim)

BuscarArsenalP004(query, limit, be) ==
    LET lim == IF limit = NoLimit THEN 5 ELSE limit
        sel == BackendCall("select", "arsenal_vendas")
        data == KeywordRows(query.s, lim)
    IN  IF ~TruthyVal(query)
        THEN Result([HttpJson(400, {"erro"})
                        EXCEPT !.erro = TRUE, !.msg = "Query obrigatoria"],
                    <<>>, leads)
        ELSE IF be # "ok"
        THEN Result([HttpJson(500, {"erro"}) EXCEPT !.erro = TRUE, !.msg = be],
                    <<sel>>, leads)
        ELSE Result([HttpJson(200, {"status", "total", "query", "resultados"})
                        EXCEPT !.tag = "sucesso", !.rows = FormatAll(data)],
                    <<sel>>, leads)

(***************************************************************************)
(* server.js:54 and part_005:55: test stubs on the low-level Server        *)
(***************************************************************************)
CallToolStub(name) ==
    IF name = "buscar_arsenal"
    THEN Result(Envelope(TextOf("teste", <<>>, "")), <<>>, leads)
    ELSE Result(Thrown("Ferramenta nao encontrada"), <<>>, leads)

(***************************************************************************)
(* part_003, part_006:29, server.js:119: McpServer.tool("buscar_arsenal")  *)
(***************************************************************************)
\* what the SDK answers when it does not call the tool callback: older
\* builds reject the request, newer ones answer with an error envelope
SdkRejects == {Thrown("McpError"), ErrorEnvelope(TextOf("erro", <<>>, "McpError"))}

McpBuscarArsenal(query, limit, be) ==
    LET lim == IF limit = NoLimit THEN 5 ELSE limit
        sel == BackendCall("select", "arsenal_vendas")
        data == KeywordRows(query.s, lim)
    IN  IF be # "ok"
        THEN Result(ErrorEnvelope(TextOf("erro", <<>>, be)), <<sel>>, leads)
        ELSE IF Len(data) = 0
        THEN Result(Envelope(TextOf("sem_resultados", <<>>, "")), <<sel>>, leads)
        ELSE Result(Envelope(TextOf("itens", FormatAll(data), "")), <<sel>>, leads)

(***************************************************************************)
(* Generic table tools (part_002, part_006:184, part_007:68)               *)
(***************************************************************************)
NoArgs == [undefined |-> TRUE]
NoDados == [nodados |-> TRUE]
HasArgs(args) == "undefined" \notin DOMAIN args

\* the handler without its try/catch: the error leaves the handler
Caught_rethrow(msg) == Thrown(msg)

\* catch (error) { return { content: [...`Erro: ${error.message}`], isError: true } }
Caught(msg) == ErrorEnvelope(TextOf("erro", <<>>, msg))

\* the rows of a table of the store
TableRows(tabela) == IF tabela = "arsenal" THEN arsenal ELSE leads

\* the read without its .limit(n)
lerTabela_noLimit(args, dflt, be) ==
    LET sel == BackendCall("select", args.tabela)
    IN  IF be # "ok"
        THEN Result(Caught(be), <<sel>>, leads)
        ELSE IF args.tabela \notin {"leads", "arsenal"}
        THEN Result(Caught("42P01"), <<sel>>, leads)
        ELSE Result(Envelope(TextOf("json", SortById(TableRows(args.tabela)), "")),
                    <<sel>>, leads)

\* .from(tabela).select(...).limit(args.limite || dflt)
lerTabela(args, dflt, be) ==
    LET lim == IF args.limite \in {NoLimit, 0} THEN dflt ELSE args.limite
        sel == BackendCall("select", args.tabela)
    IN  IF be # "ok"
        THEN Result(Caught(be), <<sel>>, leads)
        ELSE IF args.tabela \notin {"leads", "arsenal"}
        THEN Result(Caught("42P01"), <<sel>>, leads)
        ELSE Result(Envelope(TextOf("json",
                                    Take(SortById(TableRows(args.tabela)), lim), "")),
                    <<sel>>, leads)

\* the natural key of a lead is present and unique
KeyOk(rows) ==
    /\ \A r \in rows : r.telefone # NULLV
    /\ \A r1, r2 \in rows : r1.telefone = r2.telefone => r1.id = r2.id

\* what the store does with a write on a table, and the rows it returns
StoreWrite(acao, tabela, dados, id, be) ==
    LET hit == {r \in leads : r.id = id}
        after == IF acao = "insert"
                 THEN leads \cup {MergeRow(EmptyLead(FreeId(leads)), dados)}
                 ELSE IF acao = "update"
                 THEN {IF r.id = id THEN MergeRow(r, dados) ELSE r : r \in leads}
                 ELSE leads \ hit
        back == IF acao = "insert" THEN after \ leads
                ELSE IF acao = "update" THEN {MergeRow(r, dados) : r \in hit}
                ELSE hit
    IN  IF be # "ok" THEN [error |-> be, data |-> <<>>, leads |-> leads]
        ELSE IF tabela # "leads" THEN [error |-> "42P01", data |-> <<>>, leads |-> leads]
        ELSE IF acao # "delete" /\ dados = NoDados
        THEN [error |-> "PGRST102", data |-> <<>>, leads |-> leads]
        ELSE IF ~KeyOk(after)
        THEN [error |-> "23505", data |-> <<>>, leads |-> leads]
        ELSE [error |-> "none", data |-> SortById(back), leads |-> after]

WriteResult(acao, args, be) ==
    LET w == StoreWrite(acao, args.tabela, args.dados, args.id_alvo, be)
        c == BackendCall(acao, args.tabela)
    IN  IF w.error # "none"
        THEN Result(Caught(w.error), <<c>>, leads)
        ELSE Result(Envelope(TextOf("json", w.data, "")), <<c>>, w.leads)

\* part_002:99 with a last branch that treats every other action as insert
modificarDadosP002_elseInserts(args, be) ==
    IF args.acao = "update"
    THEN IF args.id_alvo = NoId
         THEN Result(Caught("Precisa de id_alvo para atualizar"), <<>>, leads)
         ELSE WriteResult("update", args, be)
    ELSE IF args.acao = "delete"
    THEN IF args.id_alvo = NoId
         THEN Result(Caught("Precisa de id_alvo para apagar"), <<>>, leads)
         ELSE WriteResult("delete", args, be)
    ELSE WriteResult("insert", args, be)

\* part_002:99
modificarDadosP002(args, be) ==
    IF args.acao = "insert" THEN WriteResult("insert", args, be)
    ELSE IF args.acao = "update"
    THEN IF args.id_alvo = NoId
         THEN Result(Caught("Precisa de id_alvo para atualizar"), <<>>, leads)
         ELSE WriteResult("update", args, be)
    ELSE IF args.acao = "delete"
    THEN IF args.id_alvo = NoId
         THEN Result(Caught("Precisa de id_alvo para apagar"), <<>>, leads)
         ELSE WriteResult("delete", args, be)
    \* result stays undefined and result.error throws a TypeError
    ELSE Result(Caught("TypeError"), <<>>, leads)

\* the last branch taken for every other action instead of for delete only
modificarDadosP006_elseDeletes(args, be) ==
    IF args.acao \in {"insert", "update"}
    THEN WriteResult(args.acao, args, be)
    ELSE WriteResult("delete", args, be)

\* part_006:198
modificarDadosP006(args, be) ==
    IF args.acao \in {"insert", "update", "delete"}
    THEN WriteResult(args.acao, args, be)
    ELSE Result(Caught("TypeError"), <<>>, leads)

\* the link asked for one minute instead of one hour
gerarLinkDownload_oneMinute(args, be) ==
    LET c == [svc |-> "storage", op |-> "createSignedUrl",
              target |-> args.bucket, arg |-> 60]
    IN  IF be # "ok" THEN Result(Caught(be), <<c>>, leads)
        ELSE IF args.bucket = UNDEFINED \/ args.caminho = UNDEFINED
        THEN Result(Caught("storage"), <<c>>, leads)
        ELSE Result(Envelope(TextOf("link", <<>>, "")), <<c>>, leads)

\* supabase.storage.from(bucket).createSignedUrl(caminho, 3600)
gerarLinkDownload(args, be) ==
    LET c == [svc |-> "storage", op |-> "createSignedUrl",
              target |-> args.bucket, arg |-> 3600]
    IN  IF be # "ok" THEN Result(Caught(be), <<c>>, leads)
        ELSE IF args.bucket = UNDEFINED \/ args.caminho = UNDEFINED
        THEN Result(Caught("storage"), <<c>>, leads)
        ELSE Result(Envelope(TextOf("link", <<>>, "")), <<c>>, leads)

\* part_002:83
CallToolP002(name, args, be) ==
    IF name \in {"ler_tabela", "modificar_dados", "gerar_link_download"} /\ ~HasArgs(args)
    THEN Result(Caught("TypeError"), <<>>, leads)
    ELSE IF name = "ler_tabela" THEN lerTabela(args, 10, be)
    ELSE IF name = "modificar_dados" THEN modificarDadosP002(args, be)
    ELSE IF name = "gerar_link_download" THEN gerarLinkDownload(args, be)
    ELSE Result(Caught("Ferramenta nao encontrada"), <<>>, leads)

\* part_006:184
CallToolP006(name, args, be) ==
    IF name \in {"ler_tabela", "modificar_dados", "gerar_link_download"} /\ ~HasArgs(args)
    THEN Result(Caught("TypeError"), <<>>, leads)
    ELSE IF name = "ler_tabela" THEN lerTabela(args, 10, be)
    ELSE IF name = "modificar_dados" THEN modificarDadosP006(args, be)
    ELSE IF name = "gerar_link_download" THEN gerarLinkDownload(args, be)
    ELSE Result(Caught("Ferramenta desconhecida"), <<>>, leads)

\* part_007:74 treating the empty result as a failure
buscarArsenalP007_emptyIsError(args, be) ==
    LET termo == args.busca
        sel == BackendCall("select", "arsenal")
        found == {i \in arsenal :
                    /\ TruthyVal(termo) => KeywordMatch(i, termo.s)
                    /\ Truthy(args.categoria) => i.categoria = args.categoria}
        data == Take(SortById(found), 5)
    IN  IF be # "ok" THEN Result(Caught(be), <<sel>>, leads)
        ELSE IF Len(data) = 0
        THEN Result(Caught("sem_resultados"), <<sel>>, leads)
        ELSE Result(Envelope(TextOf("itens", FormatAll(data), "")), <<sel>>, leads)

\* part_007:74
buscarArsenalP007(args, be) ==
    LET termo == args.busca
        sel == BackendCall("select", "arsenal")
        found == {i \in arsenal :
                    /\ TruthyVal(termo) => KeywordMatch(i, termo.s)
                    /\ Truthy(args.categoria) => i.categoria = args.categoria}
        data == Take(SortById(found), 5)
    IN  IF be # "ok" THEN Result(Caught(be), <<sel>>, leads)
        ELSE IF Len(data) = 0
        THEN Result(Envelope(TextOf("sem_resultados", <<>>, "")), <<sel>>, leads)
        ELSE Result(Envelope(TextOf("itens", FormatAll(data), "")), <<sel>>, leads)

\* part_007:68
CallToolP007(name, args, be) ==
    IF name \in {"buscar_arsenal", "ler_tabela"} /\ ~HasArgs(args)
    THEN Result(Caught("TypeError"), <<>>, leads)
    ELSE IF name = "buscar_arsenal" THEN buscarArsenalP007(args, be)
    ELSE IF name = "ler_tabela" THEN lerTabela(args, 5, be)
    ELSE Result(Caught("Ferramenta desconhecida"), <<>>, leads)

(***************************************************************************)
(* server.js:337: connection-map variant                                   *)
(***************************************************************************)
buscarArsenalSrvMap(args, be) ==
    LET searchTerm == IF TruthyVal(args.busca) THEN args.busca.s ELSE <<>>
        sel == BackendCall("select", "arsenal")
        data == Take(SortById({i \in arsenal : ILike(i.nome, searchTerm)}), 10)
    IN  IF be # "ok" THEN Result(Caught(be), <<sel>>, leads)
        ELSE Result(Envelope(TextOf("json_sucesso", FormatAll(data), "")),
                    <<sel>>, leads)

listarTabelas(be) ==
    LET sel == BackendCall("select", "information_schema.tables")
    IN  IF be # "ok" THEN Result(Caught(be), <<sel>>, leads)
        ELSE Result(Envelope(TextOf("json_sucesso", <<>>, "")), <<sel>>, leads)

CallToolSrvMap(name, args, be) ==
    IF name = "buscar_arsenal" /\ ~HasArgs(args)
    THEN Result(Caught("TypeError"), <<>>, leads)
    ELSE IF name = "buscar_arsenal" THEN buscarArsenalSrvMap(args, be)
    ELSE IF name = "listar_tabelas" THEN listarTabelas(be)
    ELSE Result(Caught("Ferramenta desconhecida"), <<>>, leads)

(***************************************************************************)
(* Actions                                                                 *)
(***************************************************************************)
Request(name, args) == [name |-> name, args |-> args]

\* the clients that may open an event stream, one connection each
Conns == {"c1", "c2"}

\* no client has connected: `let transport;`, `new Map()`
NoStreams ==
    /\ streams = [c \in Conns |-> "none"]
    /\ transport = "none"
    /\ serverTransport = "none"
    /\ activeTransports = <<>>
    /\ connectionId = [c \in Conns |-> 0]
    /\ clock = 1
    /\ handledBy = "none"

\* !supabaseUrl || !supabaseKey is false
Configured == env.SUPABASE_URL /\ env.SUPABASE_KEY

\* a client made without its credentials reaches no store: none of its
\* queries is answered
Reaches(req, r) ==
    IF Configured \/ "be" \notin DOMAIN req.args THEN TRUE
    ELSE IF req.args.be # "ok" THEN TRUE
    ELSE \A i \in 1 .. Len(r.calls) : r.calls[i].svc = "embedding"

Respond(req, r) ==
    /\ proc = "running"
    /\ Reaches(req, r)
    /\ nCalls < MaxCalls
    /\ nCalls' = nCalls + 1
    /\ lastReq' = req
    /\ lastResp' = r.resp
    /\ calls' = r.calls
    /\ leads' = r.leads
    /\ UNCHANGED <<variant, vertexProject, arsenal, env, proc, supabase, exitCause,
                   sseVars>>

\* createClient(url, key): the repository does not decide what the library
\* does with an undefined credential: it throws or it hands back a client
CreateClientOutcomes ==
    IF Configured THEN {"client"} ELSE {"client", "throws"}

\* await server.connect(new StdioServerTransport())
ConnectOutcomes ==
    IF variant = "p002_stdio" THEN {"connected", "rejects"} ELSE {"connected"}

\* the top-level statements of the module, up to app.listen / runServer
Boot(cc, conn) ==
    IF variant \in ExitingVariants /\ ~Configured
    THEN [proc |-> "exited", supabase |-> FALSE, exitCause |-> "missing_env"]
    ELSE IF cc = "throws"
    THEN [proc |-> "exited", supabase |-> FALSE, exitCause |-> "uncaughtException"]
    \* runServer().catch(() => process.exit(1))
    ELSE IF conn = "rejects"
    THEN [proc |-> "exited", supabase |-> TRUE, exitCause |-> "runServer"]
    ELSE [proc |-> "running", supabase |-> TRUE, exitCause |-> "none"]

Startup ==
    /\ proc = "starting"
    /\ \E cc \in CreateClientOutcomes, conn \in ConnectOutcomes :
        LET b == Boot(cc, conn)
        IN  /\ proc' = b.proc
            /\ supabase' = b.supabase
            /\ exitCause' = b.exitCause
    /\ UNCHANGED <<variant, vertexProject, leads, arsenal, nCalls, lastReq,
                   lastResp, calls, env, sseVars>>

\* what becomes of a promise rejected in a route handler that has no
\* try/catch, in a process without an unhandledRejection listener: the
\* runtime ends the process or only warns
RejectionFates == {"exit", "warn"}

\* the awaited call of a route handler (server.connect in GET /sse,
\* transport.handlePostMessage in POST /messages) rejects
RouteRejects(route, fate) ==
    IF variant = "srv_map"
    \* catch (error) { if (!res.headersSent) res.status(500).json({error, details}) }
    THEN [proc |-> "running", exitCause |-> "none",
          resp |-> HttpJson(500, {"error", "details"})]
    ELSE IF fate = "exit"
    THEN [proc |-> "exited", exitCause |-> "unhandledRejection", resp |-> Blank]
    ELSE [proc |-> "running", exitCause |-> "none", resp |-> Blank]

TransportFault ==
    /\ proc = "running"
    /\ variant \in SseVariants
    /\ nCalls < MaxCalls
    /\ \E route \in {"GET /sse", "POST /messages"},
          fate \in (IF variant = "srv_map" THEN {"warn"} ELSE RejectionFates) :
        LET r == RouteRejects(route, fate)
        IN  /\ proc' = r.proc
            /\ exitCause' = r.exitCause
            /\ lastReq' = Request(route, <<>>)
            /\ lastResp' = r.resp
    /\ nCalls' = nCalls + 1
    /\ calls' = <<>>
    /\ UNCHANGED <<variant, vertexProject, leads, arsenal, env, supabase, sseVars>>

PostBuscarArsenalP001 ==
    /\ variant = "p001_http"
    /\ \E query \in QueryInputs, limit \in LimitInputs :
       \* the services answer only the calls that are made
       \E emb \in (IF TruthyVal(query) /\ query.t = "string" /\ vertexProject
                    THEN EmbeddingOutcomes ELSE Quiet) :
       \E be \in (IF gerarEmbedding(emb).ok /\ TruthyVal(query) /\ query.t = "string"
                   THEN BackendOutcomes ELSE Quiet) :
       \E hits \in (IF be = "ok" /\ gerarEmbedding(emb).ok
                     THEN HitChoices ELSE {{}}) :
            Respond(Request("buscar_arsenal",
                            [query |-> query, limit |-> limit, emb |-> emb,
                             be |-> be, hits |-> hits]),
                    BuscarArsenalP001(query, limit, emb, be, hits))

\* the tools array the variant answers a listing with, in the order written
Tools(v) ==
    IF v = "p001_http" THEN <<"buscar_arsenal", "buscar_lead", "atualizar_lead">>
    ELSE IF v \in {"p002_stdio", "p006_crud"}
    THEN <<"ler_tabela", "modificar_dados", "gerar_link_download">>
    ELSE IF v = "p007_arsenal" THEN <<"buscar_arsenal", "ler_tabela">>
    ELSE IF v = "srv_map" THEN <<"buscar_arsenal", "listar_tabelas">>
    ELSE <<"buscar_arsenal">>

\* a listing that also names the tool of the request before it
ListToolsHandler_remembers ==
    Result([Blank EXCEPT !.kind = "list", !.fields = {"tools"},
                         !.rows = IF lastReq.name \in {"none", "tools/list"}
                                  THEN Tools(variant)
                                  ELSE Tools(variant) \o <<lastReq.name>>],
           <<>>, leads)

\* ListToolsRequestSchema handler / GET /tools: return { tools: [...] }
ListToolsHandler ==
    Result([Blank EXCEPT !.kind = "list", !.fields = {"tools"},
                         !.rows = Tools(variant)],
           <<>>, leads)

\* part_004 has no listing
ListToolsRequest ==
    /\ variant # "p004_http"
    /\ Respond(Request("tools/list", <<>>), ListToolsHandler)

\* the JSON bodies sent to POST /sse: one that is no JSON-RPC request, and
\* JSON-RPC requests with a known or an unknown method
SseBodies ==
    {[jsonrpc |-> FALSE, method |-> UNDEFINED],
     [jsonrpc |-> TRUE, method |-> "tools/list"],
     [jsonrpc |-> TRUE, method |-> "resources/list"]}

\* app.post('/sse') of part_001: res.json({mensagem, instrucoes, erro_original})
PostSseP001(body) ==
    Result(HttpJson(200, {"mensagem", "instrucoes", "erro_original"}), <<>>, leads)

PostSse ==
    /\ variant = "p001_http"
    /\ \E body \in SseBodies :
            Respond(Request("POST /sse", body), PostSseP001(body))

PostBuscarLead ==
    /\ variant = "p001_http"
    /\ \E telefone \in Phones \cup {UNDEFINED}, be \in BackendOutcomes :
            Respond(Request("buscar_lead", [telefone |-> telefone, be |-> be]),
                    BuscarLead(telefone, be))

PostAtualizarLead ==
    /\ variant = "p001_http"
    /\ \E telefone \in Phones \cup {UNDEFINED},
          funnel_stage \in Stages \cup {UNDEFINED, ""},
          perfil_completo_ia \in Perfis \cup {UNDEFINED},
          be \in BackendOutcomes :
            Respond(Request("atualizar_lead",
                            [telefone |-> telefone,
                             funnel_stage |-> funnel_stage,
                             perfil_completo_ia |-> perfil_completo_ia,
                             be |-> be]),
                    AtualizarLead(telefone, funnel_stage, perfil_completo_ia,
                                  nCalls + 1, be))

ToolNames ==
    {"buscar_arsenal", "ler_tabela", "modificar_dados", "gerar_link_download",
     "listar_tabelas", "apagar_tudo"}

LerArgs == [tabela : {UNDEFINED, "leads", "arsenal"}, limite : LimitInputs \cup {0}]

ModificarArgs ==
    [acao : {"insert", "update", "delete", "upsert"},
     tabela : {"leads", "inexistente"},
     dados : {NoDados, [funnel_stage |-> "quente"], [telefone |-> "p2"]},
     id_alvo : {NoId, 1}]

LinkArgs == [bucket : {UNDEFINED, "docs"}, caminho : {"f.pdf"}]

BuscaArgs == [busca : QueryInputs, categoria : {UNDEFINED, "ETAPA_3"}]

McpArgs == [query : QueryInputs, limit : LimitInputs]

ArgsFor(name) ==
    {NoArgs} \cup
    (IF name = "ler_tabela" THEN LerArgs
     ELSE IF name = "modificar_dados" THEN ModificarArgs
     ELSE IF name = "gerar_link_download" THEN LinkArgs
     ELSE IF name = "buscar_arsenal" THEN BuscaArgs
     ELSE {})

\* the store answers only the calls that are made
Answers(r, be) == be = "ok" \/ r.calls # <<>>

PostBuscarArsenalP004 ==
    /\ variant = "p004_http"
    /\ \E query \in QueryInputs, limit \in LimitInputs, be \in BackendOutcomes :
        LET r == BuscarArsenalP004(query, limit, be)
        IN  /\ Answers(r, be)
            /\ Respond(Request("buscar_arsenal",
                               [query |-> query, limit |-> limit, be |-> be]), r)

CallToolStubs ==
    /\ variant \in StubVariants
    /\ \E name \in ToolNames, args \in {NoArgs, [busca |-> Str(<<"t">>)]} :
            Respond(Request(name, args), CallToolStub(name))

McpToolCall ==
    /\ variant \in McpToolVariants
    /\ \E name \in {"buscar_arsenal", "apagar_tudo"}, args \in McpArgs \cup {NoArgs},
          be \in BackendOutcomes :
        IF name = "buscar_arsenal" /\ HasArgs(args) /\ args.query.t = "string"
        THEN Respond(Request(name, args @@ [be |-> be]),
                     McpBuscarArsenal(args.query, args.limit, be))
        ELSE /\ be = "ok"
             /\ \E resp \in SdkRejects :
                    Respond(Request(name, args @@ [be |-> be]),
                            Result(resp, <<>>, leads))

\* the outcomes the store can give to the request: it complains about the
\* id ("22P02") only when the filter carries none
StoreOutcomes(name, args) ==
    BackendOutcomes \cup
    (IF /\ name = "modificar_dados" /\ HasArgs(args)
        /\ args.acao \in {"update", "delete"} /\ args.id_alvo = NoId
     THEN {"22P02"} ELSE {})

ToolCall(name, args, be, r) ==
    /\ Answers(r, be)
    /\ Respond(Request(name, args @@ [be |-> be]), r)

CallToolRequestP002 ==
    /\ variant = "p002_stdio"
    /\ \E name \in ToolNames : \E args \in ArgsFor(name) :
       \E be \in StoreOutcomes(name, args) :
            ToolCall(name, args, be, CallToolP002(name, args, be))

CallToolRequestP006 ==
    /\ variant = "p006_crud"
    /\ \E name \in ToolNames : \E args \in ArgsFor(name) :
       \E be \in StoreOutcomes(name, args) :
            ToolCall(name, args, be, CallToolP006(name, args, be))

CallToolRequestP007 ==
    /\ variant = "p007_arsenal"
    /\ \E name \in ToolNames : \E args \in ArgsFor(name) :
       \E be \in StoreOutcomes(name, args) :
            ToolCall(name, args, be, CallToolP007(name, args, be))

CallToolRequestSrvMap ==
    /\ variant = "srv_map"
    /\ \E name \in ToolNames : \E args \in ArgsFor(name) :
       \E be \in StoreOutcomes(name, args) :
            ToolCall(name, args, be, CallToolSrvMap(name, args, be))

InitialLeads ==
    {{}, {[EmptyLead(1) EXCEPT !.telefone = "p1", !.funnel_stage = "novo"]}}

Init ==
    /\ variant \in Variants
    /\ vertexProject \in (IF variant = "p001_http" THEN BOOLEAN ELSE {FALSE})
    /\ leads \in InitialLeads
    /\ arsenal \in ArsenalChoices
    /\ nCalls = 0
    /\ lastReq = Request("none", <<>>)
    /\ lastResp = Blank
    /\ calls = <<>>
    /\ env \in [SUPABASE_URL : BOOLEAN, SUPABASE_KEY : BOOLEAN]
    /\ proc = "starting"
    /\ supabase = FALSE
    /\ exitCause = "none"
    /\ NoStreams

Next ==
    \/ Startup
    \/ TransportFault
    \/ PostSse
    \/ ListToolsRequest
    \/ PostBuscarArsenalP001
    \/ PostBuscarLead
    \/ PostAtualizarLead
    \/ PostBuscarArsenalP004
    \/ CallToolStubs
    \/ McpToolCall
    \/ CallToolRequestP002
    \/ CallToolRequestP006
    \/ CallToolRequestP007
    \/ CallToolRequestSrvMap

Spec == Init /\ [][Next]_vars

(***************************************************************************)
(* The event-stream transport: GET /sse, the POST route of each variant,   *)
(* and the end of a client's stream.  A stream is "none" before its GET,   *)
(* "open" once server.connect has started it, "failed" when server.connect *)
(* rejected, "closed" after the client has left.  In the connection-map    *)
(* variant the GET handler is cut at its await: the stream is "connecting" *)
(* in between, "closedEarly" when the client left in between, and "stale"  *)
(* when the handler went on after that.                                    *)
(***************************************************************************)
\* the variants that keep the transport in one module-level variable
SingleSlotVariants == SseVariants \ {"srv_mcp", "srv_map"}

\* the POST routes a variant registers
PostRoutes(v) ==
    IF v \in {"p003_mcp", "p006_mcp"} THEN {"/message"}
    ELSE IF v = "srv_mcp" THEN {"/messages", "/message"}
    ELSE {"/messages"}

\* await server.connect(transport): the SDK starts the stream or rejects
ConnectFates == {"connected", "rejects"}

\* activeTransports.set(id, t): a key that is there keeps its place
MapSet(m, id, t) ==
    IF \E i \in 1 .. Len(m) : m[i].id = id
    THEN [i \in 1 .. Len(m) |-> IF m[i].id = id THEN [id |-> id, t |-> t] ELSE m[i]]
    ELSE Append(m, [id |-> id, t |-> t])

\* activeTransports.delete(id)
MapDelete(m, id) == SelectSeq(m, LAMBDA e : e.id # id)

\* res.status(s).send(text)
HttpText(status, msg) == [Blank EXCEPT !.kind = "http", !.status = status, !.msg = msg]

\* the event stream the SDK starts on the response of GET /sse
SseStream == [Blank EXCEPT !.kind = "sse", !.status = 200]

\* the end of a route handler: its response, and the process after it
SseAnswer(req, resp, p, cause) ==
    /\ lastReq' = req
    /\ lastResp' = resp
    /\ proc' = p
    /\ exitCause' = cause
    /\ calls' = <<>>
    /\ UNCHANGED <<variant, vertexProject, leads, arsenal, env, supabase>>

SlotAfterGet_keepsFirst(c) ==
    IF variant = "srv_mcp" \/ transport # "none" THEN transport ELSE c

\* transport = new SSEServerTransport(..., res): the module-level variable
\* after GET /sse of client c; server.js:179 keeps it in a const of the handler
SlotAfterGet(c) == IF variant = "srv_mcp" THEN transport ELSE c

\* app.get('/sse') of the single-slot variants and of server.js:179
GetSse ==
    /\ proc = "running"
    /\ variant \in SingleSlotVariants \cup {"srv_mcp"}
    /\ \E c \in Conns, conn \in ConnectFates :
       \E fate \in (IF conn = "rejects" THEN RejectionFates ELSE {"warn"}) :
        LET r == RouteRejects("GET /sse", fate)
        IN  /\ streams[c] = "none"
            /\ streams' = [streams EXCEPT
                            ![c] = IF conn = "connected" THEN "open" ELSE "failed"]
            /\ transport' = SlotAfterGet(c)
            /\ serverTransport' = IF variant = "srv_mcp" /\ conn = "connected"
                                  THEN c ELSE serverTransport
            /\ IF conn = "connected"
               THEN SseAnswer(Request("GET /sse", [from |-> c]), SseStream,
                              "running", "none")
               ELSE SseAnswer(Request("GET /sse", [from |-> c]), r.resp,
                              r.proc, r.exitCause)
    /\ UNCHANGED <<activeTransports, connectionId, clock, handledBy, nCalls>>

\* app.get('/sse') of server.js:411, up to `await mcpServer.connect(transport)`
GetSseMap ==
    /\ proc = "running"
    /\ variant = "srv_map"
    /\ \E c \in Conns :
        /\ streams[c] = "none"
        /\ streams' = [streams EXCEPT ![c] = "connecting"]
        /\ SseAnswer(Request("GET /sse", [from |-> c]), Blank, "running", "none")
    /\ UNCHANGED <<transport, serverTransport, activeTransports, connectionId,
                   clock, handledBy, nCalls>>

\* app.get('/sse') of server.js:411, from the await to the end
GetSseMapResumes ==
    /\ proc = "running"
    /\ variant = "srv_map"
    /\ \E c \in Conns, conn \in ConnectFates :
        /\ streams[c] \in {"connecting", "closedEarly"}
        /\ IF conn = "rejects"
           THEN /\ streams' = [streams EXCEPT
                                ![c] = IF streams[c] = "connecting"
                                       THEN "failed" ELSE "closed"]
                /\ UNCHANGED <<activeTransports, connectionId>>
                /\ SseAnswer(Request("GET /sse", [from |-> c]),
                             RouteRejects("GET /sse", "warn").resp, "running", "none")
           \* const connectionId = `conn_${Date.now()}`; req.on('close', ...)
           \* is registered now: a close that came before is not heard
           ELSE /\ streams' = [streams EXCEPT
                                ![c] = IF streams[c] = "connecting"
                                       THEN "open" ELSE "stale"]
                /\ connectionId' = [connectionId EXCEPT ![c] = clock]
                /\ activeTransports' = MapSet(activeTransports, clock, c)
                /\ SseAnswer(Request("GET /sse", [from |-> c]), SseStream,
                             "running", "none")
    /\ UNCHANGED <<transport, serverTransport, clock, handledBy, nCalls>>

\* the client's stream ends (the request emits 'close', or 'error' and then
\* 'close'); only server.js:429-438 listens, and deletes its connectionId
StreamClose ==
    /\ proc = "running"
    /\ \E c \in Conns :
        /\ streams[c] \in {"open", "connecting"}
        /\ streams' = [streams EXCEPT
                        ![c] = IF streams[c] = "open" THEN "closed" ELSE "closedEarly"]
        /\ activeTransports' =
                IF variant = "srv_map" /\ streams[c] = "open"
                THEN MapDelete(activeTransports, connectionId[c])
                ELSE activeTransports
        \* the SDK forgets the transport of the server when it closes
        /\ serverTransport' = IF serverTransport = c THEN "none" ELSE serverTransport
    /\ UNCHANGED <<variant, vertexProject, leads, arsenal, nCalls, lastReq, lastResp,
                   calls, env, proc, supabase, exitCause, transport, connectionId,
                   clock, handledBy>>

\* time passes: Date.now() gives the next millisecond
Tick ==
    /\ clock < MaxClock
    /\ clock' = clock + 1
    /\ UNCHANGED <<variant, vertexProject, leads, arsenal, nCalls, lastReq, lastResp,
                   calls, env, proc, supabase, exitCause, streams, transport,
                   serverTransport, activeTransports, connectionId, handledBy>>

\* what the POST route answers by itself when it finds no transport
NoTransportAnswer(route) ==
    IF variant \in {"p003_mcp", "p006_mcp"} THEN HttpText(500, "No active transport")
    ELSE IF variant = "p005_stub" THEN HttpText(400, "Nenhuma conexao SSE ativa")
    ELSE IF variant \in {"p006_crud", "p007_arsenal"}
    THEN HttpText(404, "Sessao nao iniciada")
    ELSE IF variant = "srv_map" THEN HttpJson(400, {"error", "hint"})
    ELSE IF variant = "srv_mcp" /\ route = "/message"
    THEN HttpText(500, "Transporte nao inicializado")
    \* server.js:80-82 and server.js:186-206 have no else branch
    ELSE Blank

\* the transport the POST route hands the request to, "none" if it has none
Target(route) ==
    IF variant = "srv_map"
    \* Array.from(activeTransports.values())[0]
    THEN (IF Len(activeTransports) = 0 THEN "none" ELSE activeTransports[1].t)
    ELSE IF variant = "srv_mcp" /\ route = "/messages"
    \* mcpServer.server.transport?.handlePostMessage(req, res)
    THEN serverTransport
    ELSE transport

\* await transport.handlePostMessage(req, res): the SDK accepts the message
\* for an open stream, and refuses it with a 500 and rejects otherwise
HandlePostMessage(t, route, fate) ==
    IF streams[t] = "open"
    THEN [proc |-> "running", exitCause |-> "none", resp |-> HttpText(202, "Accepted")]
    ELSE [RouteRejects(route, fate)
            EXCEPT !.resp = HttpText(500, "SSE connection not established")]

\* app.post('/messages') / app.post('/message')
PostMessage ==
    /\ proc = "running"
    /\ nCalls < MaxCalls
    /\ \E c \in Conns, route \in PostRoutes(variant) :
        LET t == Target(route)
            req == Request("POST", [from |-> c, route |-> route])
        IN  IF t = "none"
            THEN /\ handledBy' = "none"
                 /\ SseAnswer(req, NoTransportAnswer(route), "running", "none")
            ELSE \E fate \in (IF streams[t] = "open" \/ variant = "srv_map"
                               THEN {"warn"} ELSE RejectionFates) :
                    LET h == HandlePostMessage(t, route, fate)
                    IN  /\ handledBy' = t
                        /\ SseAnswer(req, h.resp, h.proc, h.exitCause)
    /\ nCalls' = nCalls + 1
    /\ UNCHANGED <<streams, transport, serverTransport, activeTransports,
                   connectionId, clock>>

\* app.get('/health') of server.js:486: conexoes_ativas: activeTransports.size
GetHealth ==
    /\ proc = "running"
    /\ variant = "srv_map"
    /\ SseAnswer(Request("GET /health", <<>>),
                 [HttpJson(200, {"status", "servidor", "versao", "conexoes_ativas",
                                 "timestamp", "supabase_url"})
                    EXCEPT !.rows = <<Len(activeTransports)>>],
                 "running", "none")
    /\ UNCHANGED <<sseVars, nCalls>>

\* a started, configured process of an event-stream variant
InitSse ==
    /\ variant \in SseVariants
    /\ vertexProject = FALSE
    /\ leads = {}
    /\ arsenal = {}
    /\ nCalls = 0
    /\ lastReq = Request("none", <<>>)
    /\ lastResp = Blank
    /\ calls = <<>>
    /\ env = [SUPABASE_URL |-> TRUE, SUPABASE_KEY |-> TRUE]
    /\ proc = "running"
    /\ supabase = TRUE
    /\ exitCause = "none"
    /\ NoStreams

NextSse ==
    \/ GetSse
    \/ GetSseMap
    \/ GetSseMapResumes
    \/ StreamClose
    \/ Tick
    \/ PostMessage
    \/ GetHealth

SpecSse == InitSse /\ [][NextSse]_vars

(***************************************************************************)
(* Properties                                                              *)
(***************************************************************************)
\* the last request was a tool invocation and it has been answered
Answered ==
    /\ lastResp.kind # "none"
    /\ lastReq.name \in ToolNames \cup {"buscar_lead", "atualizar_lead"}

Args == lastReq.args

\* the response has the shape { content: [{type:"text", text}], isError?: boolean }
EnvelopeShape(r) ==
    /\ r.kind = "mcp"
    /\ "content" \in r.fields
    /\ r.fields \subseteq {"content", "isError"}
    /\ Len(r.content) >= 1
    /\ \A i \in 1 .. Len(r.content) : r.content[i].type = "text"
    /\ r.isError => "isError" \in r.fields

\* a tool-level error envelope: isError:true plus a message
IsToolError(r) ==
    /\ EnvelopeShape(r)
    /\ r.isError
    /\ r.content[1].text.msg # ""

\* an HTTP error reply of the REST variants: status >= 400 plus a message
IsHttpError(r) ==
    /\ r.kind = "http"
    /\ r.status >= 400
    /\ r.erro
    /\ r.msg # ""

\* the search argument of a buscar_arsenal request
QueryOf(req) ==
    IF ~HasArgs(req.args) THEN Undef
    ELSE IF "query" \in DOMAIN req.args THEN req.args.query
    ELSE IF "busca" \in DOMAIN req.args THEN req.args.busca
    ELSE Undef

\* C1: for every tool name that is not in the registry, the call handler
\* answers with an isError:true envelope carrying a tool-not-found message
\* and never lets the error escape as a thrown exception.
C1_UnknownToolIsErrorEnvelope ==
    (/\ Answered
     /\ variant \in StubVariants \cup ServerVariants
     /\ lastReq.name \notin Registry(variant))
    => /\ IsToolError(lastResp)
       /\ lastResp.content[1].text.msg \in
            {"Ferramenta nao encontrada", "Ferramenta desconhecida"}

\* the unknown-tool error escaped the stub handler as an exception
StubThrow ==
    /\ lastResp.kind = "thrown"
    /\ variant \in StubVariants
    /\ lastReq.name \notin Registry(variant)

\* the SDK answered for an McpServer variant without calling the tool callback
SdkAnswered ==
    /\ variant \in McpToolVariants
    /\ \/ lastReq.name \notin Registry(variant)
       \/ ~HasArgs(Args)
       \/ Args.query.t # "string"

\* C2 (as stated): every response to a tool invocation, on success and on
\* failure and in every variant, has the envelope shape
\* {content: [{type:"text", text}], isError?: boolean}.
C2_EveryResponseIsEnvelope ==
    Answered => EnvelopeShape(lastResp)

\* C2 (amended): every response an MCP call handler or tool callback returns
\* has the envelope shape, and the only invocation of such a handler that is
\* answered otherwise is the unknown tool name the stub handlers throw on;
\* the REST endpoints answer with a plain JSON body that has neither content
\* nor isError.
C2_HandlerResponsesAreEnvelopes ==
    /\ lastResp.kind = "mcp" => EnvelopeShape(lastResp)
    /\ (Answered /\ variant \notin RestVariants /\ ~SdkAnswered)
        => (EnvelopeShape(lastResp) \/ StubThrow)
    /\ (Answered /\ variant \in RestVariants)
        => /\ lastResp.kind = "http"
           /\ lastResp.fields \cap {"content", "isError"} = {}
           /\ lastResp.status \in {200, 400, 500}

\* C2 witness: a handler caught a failure of the store and returned the
\* error envelope
C2_Witness ==
    /\ variant = "p002_stdio"
    /\ lastReq.name = "ler_tabela"
    /\ HasArgs(Args) /\ Args.be = "PGRST301"
    /\ lastResp.fields = {"content", "isError"}
    /\ lastResp.isError

\* the empty or missing search argument
EmptyQuery(req) == QueryOf(req) \in {Undef, Str(<<>>)}

\* C3: buscar_arsenal called with an empty-string or missing query returns
\* an InvalidArgument error, and no call to the embedding service or to the
\* store is made before that error is returned.
C3_EmptyQueryRejectedBeforeAnyCall ==
    (/\ Answered /\ lastReq.name = "buscar_arsenal" /\ EmptyQuery(lastReq)
     \* the handlers that search; the stubs answer a fixed text
     /\ variant \notin StubVariants /\ ~SdkAnswered)
    => /\ IsToolError(lastResp) \/ IsHttpError(lastResp)
       /\ calls = <<>>

\* buscar_arsenal got as far as its upstream calls and one of them failed
UpstreamFailed ==
    /\ Answered
    /\ lastReq.name = "buscar_arsenal"
    /\ HasArgs(Args)
    /\ "be" \in DOMAIN Args
    /\ \/ Args.be # "ok"
       \/ /\ variant = "p001_http"
          /\ TruthyVal(Args.query) /\ Args.query.t = "string"
          /\ (~vertexProject \/ Args.emb # "ok")

MatchedRows ==
    IF variant = "p001_http" THEN Args.hits
    ELSE IF variant = "p007_arsenal"
    THEN {i \in arsenal :
            /\ TruthyVal(Args.busca) => KeywordMatch(i, Args.busca.s)
            /\ Truthy(Args.categoria) => i.categoria = Args.categoria}
    ELSE IF variant = "srv_map"
    THEN {i \in arsenal :
            ILike(i.nome, IF TruthyVal(Args.busca) THEN Args.busca.s ELSE <<>>)}
    ELSE {i \in arsenal : KeywordMatch(i, Args.query.s)}

\* buscar_arsenal ran its search without a failure and no row matched
SearchMatchedNothing ==
    /\ Answered
    /\ lastReq.name = "buscar_arsenal"
    /\ variant \notin StubVariants
    /\ ~SdkAnswered
    /\ HasArgs(Args)
    /\ ~UpstreamFailed
    /\ calls # <<>>
    /\ MatchedRows = {}

\* the records a response carries
RowsOf(r) == IF r.kind = "mcp" THEN r.content[1].text.rows ELSE r.rows

TagOf(r) == IF r.kind = "mcp" THEN r.content[1].text.tag ELSE r.tag

NonError(r) ==
    \/ r.kind = "mcp" /\ "isError" \notin r.fields
    \/ r.kind = "http" /\ r.status = 200 /\ ~r.erro

\* the variants whose buscar_arsenal has a branch for the empty result
SentinelVariants == {"p001_http", "p007_arsenal"} \cup McpToolVariants

\* C5 (as stated): buscar_arsenal with a query that matches zero rows
\* returns a non-error response carrying the 'no results' sentinel and an
\* empty result list.
C5_NoRowsGivesSentinel ==
    SearchMatchedNothing
    => /\ NonError(lastResp)
       /\ TagOf(lastResp) = "sem_resultados"
       /\ RowsOf(lastResp) = <<>>

\* C5 (amended): buscar_arsenal with a query that matches zero rows returns
\* a non-error response with an empty result list; the response carries the
\* 'no results' sentinel in part_001, part_003, part_006, part_007 and
\* server.js:119, and the ordinary success payload with total 0 in part_004
\* and server.js:337.
C5_NoRowsIsNotAnError ==
    SearchMatchedNothing
    => /\ NonError(lastResp)
       /\ RowsOf(lastResp) = <<>>
       /\ TagOf(lastResp) =
            (IF variant \in SentinelVariants THEN "sem_resultados"
             ELSE IF variant = "srv_map" THEN "json_sucesso"
             ELSE "sucesso")

\* C5 witness: part_007 searched a non-empty arsenal for a term no row has
\* and answered with the sentinel
C5_Witness ==
    /\ variant = "p007_arsenal"
    /\ lastReq.name = "buscar_arsenal"
    /\ arsenal # {}
    /\ HasArgs(Args) /\ Args.busca = Str(<<"q">>)
    /\ lastResp.content[1].text.tag = "sem_resultados"
    /\ "isError" \notin lastResp.fields

\* C6: buscar_lead called with a phone number that is not in the leads
\* store returns the non-error result {found:false, lead:null}.
C6_AbsentLeadIsNegativeResult ==
    (/\ Answered
     /\ lastReq.name = "buscar_lead"
     /\ Args.be = "ok"
     /\ ~\E r \in leads : r.telefone = Args.telefone)
    => /\ lastResp.kind = "http"
       /\ lastResp.status = 200
       /\ lastResp.fields = {"encontrado", "lead"}
       /\ ~lastResp.encontrado
       /\ lastResp.lead = <<>>
       /\ ~lastResp.erro

\* C6 witness: the store holds a lead, another phone number was looked up
\* and the negative result came back
C6_Witness ==
    /\ lastReq.name = "buscar_lead"
    /\ Args.telefone = "p2"
    /\ \E r \in leads : r.telefone = "p1"
    /\ ~\E r \in leads : r.telefone = "p2"
    /\ lastResp.status = 200
    /\ ~lastResp.encontrado

\* C7: buscar_lead reports an error (not a negative result) whenever the
\* store's query fails with an error code other than its not-found code;
\* only the not-found code is mapped to the non-error negative result.
C7_OnlyNotFoundIsNegative ==
    /\ (Answered /\ lastReq.name = "buscar_lead" /\ Args.be # "ok")
        => /\ IsHttpError(lastResp)
           /\ lastResp.status = 500
           /\ lastResp.msg = Args.be
           /\ "encontrado" \notin lastResp.fields
    /\ (/\ Answered /\ lastReq.name = "buscar_lead"
        /\ lastResp.status = 200 /\ ~lastResp.encontrado)
        => /\ Args.be = "ok"
           /\ Cardinality({r \in leads : r.telefone = Args.telefone}) # 1

\* C7 witness: the query for a stored lead failed with another code and the
\* caller got the error
C7_Witness ==
    /\ lastReq.name = "buscar_lead"
    /\ Args.be = "08006"
    /\ \E r \in leads : r.telefone = Args.telefone
    /\ lastResp.status = 500
    /\ lastResp.erro

\* a successful atualizar_lead step on a phone number whose record an earlier
\* atualizar_lead call has written
SecondUpsert ==
    /\ nCalls' = nCalls + 1
    /\ lastReq'.name = "atualizar_lead"
    /\ lastResp'.status = 200
    /\ \E r \in leads : r.telefone = lastReq'.args.telefone /\ r.last_interaction > 0

\* the record of the request's phone number after the step equals the one
\* before it with the fields the predicate picks taken from the request
MergedOver(supplied(_)) ==
    LET a == lastReq'.args
        old == CHOOSE r \in leads : r.telefone = a.telefone
    IN  /\ Cardinality({r \in leads' : r.telefone = a.telefone}) = 1
        /\ \A new \in {r \in leads' : r.telefone = a.telefone} :
            /\ new.id = old.id
            /\ new.last_interaction = nCalls'
            /\ new.funnel_stage =
                 (IF supplied(a.funnel_stage) THEN a.funnel_stage
                  ELSE old.funnel_stage)
            /\ new.perfil_completo_ia =
                 (IF supplied(a.perfil_completo_ia) THEN a.perfil_completo_ia
                  ELSE old.perfil_completo_ia)

Present(v) == v # UNDEFINED

\* C8 (as stated): after atualizar_lead is called twice with the same phone
\* number, the store holds exactly one record for it, whose fields are the
\* latest call's supplied fields merged over the previous state.
C8_UpsertMergesSuppliedFields ==
    [][SecondUpsert => MergedOver(Present)]_vars

\* C8 (amended): the store holds exactly one record for the phone number,
\* whose fields are the latest call's non-empty supplied fields merged over
\* the previous state; a field that is omitted or supplied empty keeps the
\* value of the earlier call.
C8_UpsertMergesNonEmptyFields ==
    [][SecondUpsert => MergedOver(Truthy)]_vars

\* C8 witness: the first call set the stage of a new lead, the second one
\* supplied the profile only, and the single record has both
C8_Witness ==
    /\ nCalls = 2
    /\ lastReq.name = "atualizar_lead"
    /\ Args.telefone = "p2"
    /\ Args.funnel_stage = UNDEFINED
    /\ Args.perfil_completo_ia = "perfilA"
    /\ \E r \in leads :
        /\ r.telefone = "p2"
        /\ r.funnel_stage = "quente"
        /\ r.perfil_completo_ia = "perfilA"
        /\ r.last_interaction = 2
    /\ Cardinality({r \in leads : r.telefone = "p2"}) = 1

\* the request leaves out a field its tool requires
MissingRequired ==
    /\ Answered
    /\ HasArgs(Args)
    /\ \/ lastReq.name \in {"buscar_lead", "atualizar_lead"} /\ Args.telefone = UNDEFINED
       \/ lastReq.name = "ler_tabela" /\ variant \in ServerVariants
            /\ lastReq.name \in Registry(variant) /\ Args.tabela = UNDEFINED

\* C9: a tool invocation that omits a required field is always reported to
\* the caller as an InvalidArgument error, and no read or write is issued
\* to the store for it.
C9_MissingFieldRejectedWithoutStoreCall ==
    MissingRequired
    => /\ IsToolError(lastResp) \/ IsHttpError(lastResp)
       /\ calls = <<>>

\* C10: modificar_dados with acao update or delete and no id_alvo returns an
\* error, and no update or delete is issued to the store.
C10_WriteWithoutIdRejected ==
    (/\ Answered
     /\ lastReq.name = "modificar_dados"
     /\ lastReq.name \in Registry(variant)
     /\ HasArgs(Args)
     /\ Args.acao \in {"update", "delete"}
     /\ Args.id_alvo = NoId)
    => /\ IsToolError(lastResp)
       /\ \A i \in 1 .. Len(calls) : calls[i].op \notin {"update", "delete"}

\* a phone number that had a lead before the step has none after it
LeadRemoved ==
    \E p \in Phones :
        /\ \E r \in leads : r.telefone = p
        /\ ~ \E r \in leads' : r.telefone = p

\* C11 (as stated): no sequence of tool invocations removes a lead record
\* from the store: once a lead with a given phone number exists, it exists
\* in every later state.
C11_LeadNeverRemoved ==
    [][~LeadRemoved]_vars

\* C11 (amended): the lead tools never remove a lead; a lead with a given
\* phone number disappears only by a modificar_dados call on the table
\* "leads" with acao delete, or acao update that rewrites its phone number,
\* naming the id of that lead, in the variants that offer modificar_dados.
C11_OnlyGenericWriteRemovesLead ==
    [][LeadRemoved =>
        /\ variant \in {"p002_stdio", "p006_crud"}
        /\ lastReq'.name = "modificar_dados"
        /\ lastReq'.args.tabela = "leads"
        /\ lastReq'.args.acao \in {"update", "delete"}
        /\ \E r \in leads : r.id = lastReq'.args.id_alvo
        /\ lastReq'.args.acao = "update" => "telefone" \in DOMAIN lastReq'.args.dados]_vars

\* C11 witness: modificar_dados deleted the lead of "p1" and returned it
C11_Witness ==
    /\ lastReq.name = "modificar_dados"
    /\ "acao" \in DOMAIN Args
    /\ Args.acao = "delete"
    /\ NonError(lastResp)
    /\ \E i \in 1 .. Len(RowsOf(lastResp)) : RowsOf(lastResp)[i].telefone = "p1"
    /\ ~ \E r \in leads : r.telefone = "p1"

C13_OnlyMissingConfigurationExits ==
    proc = "exited"
    => /\ ~Configured
       /\ exitCause \in {"missing_env", "uncaughtException"}

\* buscar_arsenal of part_001 was asked with a usable query and the
\* embedding could not be made: the provider is unconfigured or its call failed
EmbeddingDown ==
    /\ variant = "p001_http"
    /\ lastReq.name = "buscar_arsenal"
    /\ TruthyVal(Args.query) /\ Args.query.t = "string"
    /\ ~vertexProject \/ Args.emb # "ok"

EmbeddingUnconfigured ==
    /\ variant = "p001_http"
    /\ lastReq.name = "buscar_arsenal"
    /\ TruthyVal(Args.query) /\ Args.query.t = "string"
    /\ ~vertexProject

SearchAnswered ==
    /\ lastReq.name = "buscar_arsenal"
    /\ Answered
    /\ NonError(lastResp)

\* the limit of the request, 5 when the request carries none
RequestedLimit ==
    IF "limit" \in DOMAIN Args /\ Args.limit # NoLimit THEN Args.limit ELSE 5

\* C16 (as stated): buscar_arsenal never returns more than limit records,
\* and when limit is omitted it behaves as limit = 5.
C16_AtMostLimitDefaultFive ==
    SearchAnswered => Len(RowsOf(lastResp)) <= RequestedLimit

\* C16 (amended): where buscar_arsenal takes a limit (part_001, part_003,
\* part_004, part_006, server.js:119) it never returns more than limit
\* records and an omitted limit behaves as 5; buscar_arsenal of part_007
\* takes no limit and returns at most 5 records, and buscar_arsenal of
\* server.js:337 takes no limit and returns at most 10 records.
C16_AtMostLimitOrFixedCap ==
    SearchAnswered
    => Len(RowsOf(lastResp)) <= (IF variant = "srv_map" THEN 10 ELSE RequestedLimit)

\* C16 witness: the connection-map variant returned 10 of the 11 rows
C16_Witness ==
    /\ SearchAnswered
    /\ variant = "srv_map"
    /\ Cardinality(arsenal) > 10
    /\ Len(RowsOf(lastResp)) = 10

\* part_004 without a limit returned 5 rows of the more than 5 that match
C16_WitnessDefault ==
    /\ SearchAnswered
    /\ variant = "p004_http"
    /\ Args.limit = NoLimit
    /\ Cardinality({i \in arsenal : KeywordMatch(i, Args.query.s)}) > 5
    /\ Len(RowsOf(lastResp)) = 5

\* ler_tabela read an existing table and the store answered
ReadAnswered ==
    /\ lastReq.name = "ler_tabela"
    /\ variant \in {"p002_stdio", "p006_crud", "p007_arsenal"}
    /\ Answered
    /\ HasArgs(Args)
    /\ Args.tabela \in {"leads", "arsenal"}
    /\ Args.be = "ok"

\* the response of a read is one text block of rows of the table, no error
ReadShape ==
    /\ EnvelopeShape(lastResp)
    /\ NonError(lastResp)
    /\ Len(lastResp.content) = 1
    /\ \A i \in 1 .. Len(RowsOf(lastResp)) :
            RowsOf(lastResp)[i] \in TableRows(Args.tabela)
    /\ \A i, j \in 1 .. Len(RowsOf(lastResp)) :
            i # j => RowsOf(lastResp)[i] # RowsOf(lastResp)[j]

\* with limite 1 and a table of one row, the response is exactly that row
ReadsTheOnlyRow ==
    (Args.limite = 1 /\ Cardinality(TableRows(Args.tabela)) = 1)
    => \E r \in TableRows(Args.tabela) : RowsOf(lastResp) = <<r>>

\* C17 (as stated): ler_tabela against a table returns the rows read (at
\* most limite of them) serialized as the single text-content block of a
\* non-error response; with limite 1 and a table holding exactly one row,
\* the response contains exactly that row.
C17_ReadReturnsAtMostLimite ==
    ReadAnswered
    => /\ ReadShape
       /\ Args.limite # NoLimit => Len(RowsOf(lastResp)) <= Args.limite
       /\ ReadsTheOnlyRow

\* the number of rows asked of the store: args.limite || default
EffectiveLimite ==
    IF Args.limite \in {NoLimit, 0}
    THEN (IF variant = "p007_arsenal" THEN 5 ELSE 10)
    ELSE Args.limite

\* C17 (amended): ler_tabela against a table returns the rows read as the
\* single text-content block of a non-error response: at most limite of
\* them when limite is a positive number, and at most 10 (5 in part_007)
\* when limite is omitted or 0; with limite 1 and a table holding exactly
\* one row, the response contains exactly that row.
C17_ReadReturnsAtMostEffectiveLimite ==
    ReadAnswered
    => /\ ReadShape
       /\ Len(RowsOf(lastResp)) <= EffectiveLimite
       /\ \/ Len(RowsOf(lastResp)) = EffectiveLimite
          \/ Len(RowsOf(lastResp)) = Cardinality(TableRows(Args.tabela))
       /\ ReadsTheOnlyRow

\* C17 witness: limite 1 on the one-row table of leads returned that row
C17_Witness ==
    /\ ReadAnswered
    /\ Args.tabela = "leads"
    /\ Args.limite = 1
    /\ Cardinality(leads) = 1
    /\ \E r \in leads : RowsOf(lastResp) = <<r>>

\* limite 1 on a table of several rows returned one of them
C17_WitnessCut ==
    /\ ReadAnswered
    /\ Args.limite = 1
    /\ Cardinality(TableRows(Args.tabela)) > 1
    /\ Len(RowsOf(lastResp)) = 1

\* the step is a gerar_link_download invocation handled by the tool
LinkStep ==
    /\ nCalls' = nCalls + 1
    /\ lastReq'.name = "gerar_link_download"
    /\ variant \in {"p002_stdio", "p006_crud"}
    /\ HasArgs(lastReq'.args)

\* C18: every gerar_link_download invocation requests a signed URL with an
\* expiry of exactly 3600 seconds, and generating a link changes no stored
\* state of this system: the request for the signed URL is the only call
\* issued, and the tables are as before.
C18_LinkExpiresInOneHourAndStoresNothing ==
    [][LinkStep =>
        /\ Len(calls') = 1
        /\ calls'[1].svc = "storage"
        /\ calls'[1].op = "createSignedUrl"
        /\ calls'[1].arg = 3600
        /\ leads' = leads
        /\ arsenal' = arsenal]_vars

\* C18 witness: a link was generated for a file of the bucket "docs"
C18_Witness ==
    /\ lastReq.name = "gerar_link_download"
    /\ variant \in {"p002_stdio", "p006_crud"}
    /\ HasArgs(Args)
    /\ Args.bucket = "docs"
    /\ NonError(lastResp)
    /\ TagOf(lastResp) = "link"
    /\ calls[1].arg = 3600
    /\ leads # {}

\* the methods of the synchronous JSON-RPC surface
JsonRpcMethods ==
    {"initialize", "tools/list", "tools/call", "ping", "notifications/initialized"}

\* the response is a JSON-RPC error object with the given code
JsonRpcError(r, code) ==
    /\ r.kind = "http"
    /\ "error" \in r.fields
    /\ r.code = code

\* C19: on the synchronous HTTP surface, a POST /sse request whose method
\* is not one of initialize, tools/list, tools/call, ping or
\* notifications/initialized is answered with a JSON-RPC error carrying
\* code -32601, and a malformed request with code -32600.
C19_UnknownMethodAndMalformedRequestCodes ==
    lastReq.name = "POST /sse"
    => /\ (Args.jsonrpc /\ Args.method \notin JsonRpcMethods)
            => JsonRpcError(lastResp, -32601)
       /\ ~Args.jsonrpc => JsonRpcError(lastResp, -32600)

\* the last request was a listing of the tools
Listed == lastReq.name = "tools/list"

\* C20: listing the tools returns the same full set of tools, with
\* pairwise-distinct names and in the same order, on every call, regardless
\* of which tool invocations or connections happened before.
C20_ToolListIsFixed ==
    Listed
    => /\ lastResp.rows = Tools(variant)
       /\ {lastResp.rows[i] : i \in 1 .. Len(lastResp.rows)} = Registry(variant)
       /\ \A i, j \in 1 .. Len(lastResp.rows) :
                i # j => lastResp.rows[i] # lastResp.rows[j]

\* C20 witness: the tools were listed after a modificar_dados call had
\* added a second lead
C20_Witness ==
    /\ Listed
    /\ variant = "p002_stdio"
    /\ nCalls = 2
    /\ Cardinality(leads) = 2
    /\ Len(lastResp.rows) = 3

\* the step is a modificar_dados invocation whose acao is none of insert,
\* update and delete
UnknownAcaoStep ==
    /\ nCalls' = nCalls + 1
    /\ lastReq'.name = "modificar_dados"
    /\ variant \in {"p002_stdio", "p006_crud"}
    /\ HasArgs(lastReq'.args)
    /\ lastReq'.args.acao \notin {"insert", "update", "delete"}

\* C26: modificar_dados called with an acao outside {insert, update,
\* delete} returns an isError:true envelope and issues no insert, update or
\* delete to the backing store: no call is made and the rows are as before.
C26_UnknownAcaoIsErrorWithoutWrite ==
    [][UnknownAcaoStep =>
        /\ IsToolError(lastResp')
        /\ calls' = <<>>
        /\ leads' = leads]_vars

\* C26 witness: acao "upsert" on the table of leads was answered with the
\* error envelope and the lead is still there
C26_Witness ==
    /\ lastReq.name = "modificar_dados"
    /\ variant \in {"p002_stdio", "p006_crud"}
    /\ "acao" \in DOMAIN Args
    /\ Args.acao = "upsert"
    /\ Args.tabela = "leads"
    /\ Args.dados # NoDados
    /\ IsToolError(lastResp)
    /\ calls = <<>>
    /\ leads # {}


\* a POST to the message endpoint has been handled in this step
PostStep ==
    /\ nCalls' = nCalls + 1
    /\ lastReq'.name = "POST"

\* no client has asked for GET /sse yet
NoStreamOpened == \A c \in Conns : streams[c] = "none"

\* C21: a POST to the message endpoint that arrives when no SSE stream has
\* been opened gets a 400 or a 500 response, and the process keeps running.
C21_PostWithoutStreamIsRejected ==
    [][PostStep /\ NoStreamOpened =>
        /\ lastResp'.kind = "http"
        /\ lastResp'.status \in {400, 500}
        /\ proc' = "running"]_vars

\* C27: where GET /sse is registered twice, once a client's stream is open a
\* POST to /message is handed to a transport and not answered with the 500
\* "Transporte nao inicializado", and every POST to /messages is answered.
C27_SecondRegistrationServesMessage ==
    [][PostStep /\ variant = "srv_mcp" =>
        /\ (lastReq'.args.route = "/message" /\ (\E c \in Conns : streams[c] = "open")
              => /\ handledBy' \in Conns
                 /\ streams[handledBy'] = "open"
                 /\ lastResp' # HttpText(500, "Transporte nao inicializado"))
        /\ (lastReq'.args.route = "/messages" => lastResp'.kind # "none")]_vars

\* every client has asked for GET /sse
AllStreamsOpened == \A c \in Conns : streams[c] # "none"

\* C22: in the single-slot variants a second GET /sse made while a first
\* stream is open overwrites the slot; from then on the slot stays with the
\* second client, and every POST, whoever sends it, is handed to the second
\* client's transport and none to the first one's.
C22_SecondStreamTakesTheSlot ==
    [][(variant \in SingleSlotVariants) =>
        /\ (\A a, b \in Conns :
              (a # b /\ streams[a] = "open" /\ streams[b] = "none" /\ streams'[b] # "none")
                => transport' = b)
        /\ (AllStreamsOpened => transport' = transport)
        /\ (PostStep /\ AllStreamsOpened => handledBy' = transport)]_vars

C22_Witness ==
    /\ variant \in SingleSlotVariants
    /\ streams = [c \in Conns |-> "open"]
    /\ transport = "c2"
    /\ lastReq.name = "POST"
    /\ lastReq.args.from = "c1"
    /\ handledBy = "c2"
    /\ lastResp.status = 202

\* some client's stream has closed and no stream is open
OnlyClosedStreams ==
    /\ \E c \in Conns : streams[c] = "closed"
    /\ \A c \in Conns : streams[c] \in {"none", "closed"}

\* C23: a POSTed message is never handed to a transport whose stream has
\* closed; once the streams have closed a POST is answered by the route's own
\* no-session check.
C23_ClosedStreamGetsNoMessage ==
    [][PostStep =>
        /\ (handledBy' \in Conns => streams[handledBy'] # "closed")
        /\ (OnlyClosedStreams =>
              /\ handledBy' = "none"
              /\ lastResp' = NoTransportAnswer(lastReq'.args.route))]_vars

\* C24: in the connection-map variant, with two streams open, a POST sent by
\* the client that connected later is not handed to the transport of the
\* client that connected earlier.
C24_PostGoesToTheSendersTransport ==
    [][PostStep /\ variant = "srv_map" =>
        \A early \in Conns :
            (/\ streams[early] = "open"
             /\ streams[lastReq'.args.from] = "open"
             /\ connectionId[early] < connectionId[lastReq'.args.from])
            => handledBy' # early]_vars

\* the clients whose stream is open
OpenConns == {c \in Conns : streams[c] = "open"}

\* C25: in the connection-map variant activeTransports always holds exactly
\* one entry for each open SSE connection, so its size is the number of open
\* connections.
C25_OneEntryPerOpenConnection ==
    variant = "srv_map" =>
        /\ Len(activeTransports) = Cardinality(OpenConns)
        /\ \A c \in OpenConns : \E i \in 1 .. Len(activeTransports) :
              activeTransports[i].t = c
====
